---------------------------- MODULE Spec2Model ----------------------------
(***************************************************************************)
(* Model of the delegated-statistics ingester ip_asn_allocations.go:       *)
(* parseHeader / parseVersionLine / parseSummaryLine, saveHeaderData and   *)
(* the streaming loop of parseData, run against a store that enforces the  *)
(* UNIQUE constraints of db_schema.txt.                                    *)
(*                                                                         *)
(* Text is modelled as sequences of one-character strings, so that the     *)
(* regular expressions and strconv conversions are computed, not assumed.  *)
(* Unsigned 64-bit fields are kept as canonical decimal digit sequences    *)
(* (no leading zeros), which keeps their full width.                       *)
(***************************************************************************)
EXTENDS Integers, Sequences, FiniteSets, Bags, TLC

(***************************************************************************)
(* Characters and character classes                                        *)
(***************************************************************************)
Bar == "|"
CR == "\r"
Hash == "#"
Digits == <<"0", "1", "2", "3", "4", "5", "6", "7", "8", "9">>
DigitSet == {Digits[i] : i \in 1..Len(Digits)}
Upper == {"A", "B", "C", "D", "E", "F", "G", "H", "I", "J", "K", "L", "M",
          "N", "O", "P", "Q", "R", "S", "T", "U", "V", "W", "X", "Y", "Z"}
VersionChars == (DigitSet \ {"0"}) \cup {"."}
ValueChars == DigitSet \cup {"a", "b", "c", "d", "e", "f", ":", "."}

AllIn(s, set) == \A i \in 1..Len(s) : s[i] \in set
IsDigits(s) == Len(s) > 0 /\ AllIn(s, DigitSet)
HasPrefix(s, p) == Len(s) >= Len(p) /\ SubSeq(s, 1, Len(p)) = p
Drop(s, n) == SubSeq(s, n + 1, Len(s))

(***************************************************************************)
(* Words of the grammar                                                    *)
(***************************************************************************)
afrinic == <<"a", "f", "r", "i", "n", "i", "c">>
apnic == <<"a", "p", "n", "i", "c">>
arin == <<"a", "r", "i", "n">>
lacnic == <<"l", "a", "c", "n", "i", "c">>
ripencc == <<"r", "i", "p", "e", "n", "c", "c">>
Registries == {afrinic, apnic, arin, lacnic, ripencc}

asn == <<"a", "s", "n">>
ipv4 == <<"i", "p", "v", "4">>
ipv6 == <<"i", "p", "v", "6">>
RecordTypes == {ipv4, asn, ipv6}

allocated == <<"a", "l", "l", "o", "c", "a", "t", "e", "d">>
assigned == <<"a", "s", "s", "i", "g", "n", "e", "d">>
available == <<"a", "v", "a", "i", "l", "a", "b", "l", "e">>
reserved == <<"r", "e", "s", "e", "r", "v", "e", "d">>
States == {allocated, assigned, available, reserved}

summary == <<"s", "u", "m", "m", "a", "r", "y">>
Star == <<"*">>
Zeros8 == <<"0", "0", "0", "0", "0", "0", "0", "0">>
EpochCompact == <<"1", "9", "7", "0", "0", "1", "0", "1">>
EpochDashed == <<"1", "9", "7", "0", "-", "0", "1", "-", "0", "1">>

(***************************************************************************)
(* strconv: decimal conversions with Go's range clamping                   *)
(***************************************************************************)
Zero == <<"0">>
MaxUint32 == <<"4", "2", "9", "4", "9", "6", "7", "2", "9", "5">>
MaxUint64 == <<"1", "8", "4", "4", "6", "7", "4", "4", "0", "7",
               "3", "7", "0", "9", "5", "5", "1", "6", "1", "5">>
MaxInt32 == <<"2", "1", "4", "7", "4", "8", "3", "6", "4", "7">>
MinInt32Magnitude == <<"2", "1", "4", "7", "4", "8", "3", "6", "4", "8">>

DigitVal(c) == (CHOOSE i \in 1..Len(Digits) : Digits[i] = c) - 1

\* The numeric value of a digit string, as its canonical digit sequence.
RECURSIVE Canon(_)
Canon(s) == IF Len(s) > 1 /\ s[1] = "0" THEN Canon(Tail(s)) ELSE s

\* a < b for canonical digit sequences.
RECURSIVE LexLess(_, _)
LexLess(a, b) ==
    IF a = <<>> THEN FALSE
    ELSE IF a[1] # b[1] THEN DigitVal(a[1]) < DigitVal(b[1])
    ELSE LexLess(Tail(a), Tail(b))
NumLess(a, b) == Len(a) < Len(b) \/ (Len(a) = Len(b) /\ LexLess(a, b))

\* strconv.ParseUint(s, 10, bitSize) with the error discarded: 0 on a syntax
\* error, the largest value of the size on a range error.
ParseUint(s, max) ==
    IF ~IsDigits(s) THEN Zero
    ELSE IF NumLess(max, Canon(s)) THEN max
    ELSE Canon(s)

\* The value of a canonical digit sequence small enough for an integer.
RECURSIVE ToInt(_)
ToInt(s) == IF s = <<>> THEN 0 ELSE 10 * ToInt(SubSeq(s, 1, Len(s) - 1)) + DigitVal(s[Len(s)])

\* strconv.ParseInt(s, 10, 32) with the error discarded, as [neg, mag]:
\* an optional sign, then digits; 0 on a syntax error; clamped on a range error.
ParseInt32(s) ==
    LET signed == Len(s) > 0 /\ s[1] \in {"+", "-"}
        neg == signed /\ s[1] = "-"
        body == IF signed THEN Tail(s) ELSE s
        lim == IF neg THEN MinInt32Magnitude ELSE MaxInt32
    IN  IF ~IsDigits(body) THEN [neg |-> FALSE, mag |-> Zero]
        ELSE IF NumLess(lim, Canon(body)) THEN [neg |-> neg, mag |-> lim]
        ELSE [neg |-> neg, mag |-> Canon(body)]

\* hdr.UTCoffset /= 100 on the parsed value: Go's division truncates toward zero.
DivHundred(v) ==
    LET q == IF Len(v.mag) <= 2 THEN 0 ELSE ToInt(SubSeq(v.mag, 1, Len(v.mag) - 2))
    IN  IF v.neg THEN 0 - q ELSE q

(***************************************************************************)
(* Pipe-separated fields                                                   *)
(***************************************************************************)
IndexOfBar(s) ==
    IF \E i \in 1..Len(s) : s[i] = Bar
    THEN CHOOSE i \in 1..Len(s) : s[i] = Bar /\ \A j \in 1..(i - 1) : s[j] # Bar
    ELSE 0

\* The first n fields of s and what follows the n-th bar; <<>> when s has
\* fewer than n bars.
RECURSIVE Fields(_, _)
Fields(s, n) ==
    IF n = 0 THEN <<s>>
    ELSE LET i == IndexOfBar(s)
         IN  IF i = 0 THEN <<>>
             ELSE LET rest == Fields(Drop(s, i), n - 1)
                  IN  IF rest = <<>> THEN <<>> ELSE <<SubSeq(s, 1, i - 1)>> \o rest

(***************************************************************************)
(* FileHeader and the header regular expressions                           *)
(***************************************************************************)
\* The zero value of FileHeader (var hdr FileHeader).
ZeroHeader ==
    [version |-> <<>>, registry |-> <<>>, serial |-> Zero, records |-> Zero,
     startdate |-> <<>>, enddate |-> <<>>, UTCoffset |-> 0,
     asnCount |-> Zero, ipv4Count |-> Zero, ipv6Count |-> Zero]

\* ^([1-9.])+\|(afrinic|apnic|arin|lacnic|ripencc)\|([0-9]+)\|(\d+)\|(\d+)\|(\d+)\|(.*)
\* <<>> when the line does not match, else the submatches 1..7.  Group 1 is
\* repeated, so it holds the last character it matched.
VersionMatches(line) ==
    LET f == Fields(line, 6)
    IN  IF f = <<>> THEN <<>>
        ELSE IF /\ Len(f[1]) > 0 /\ AllIn(f[1], VersionChars)
                /\ f[2] \in Registries
                /\ IsDigits(f[3]) /\ IsDigits(f[4]) /\ IsDigits(f[5]) /\ IsDigits(f[6])
             THEN <<<<f[1][Len(f[1])]>>, f[2], f[3], f[4], f[5], f[6], f[7]>>
             ELSE <<>>

\* parseVersionLine after a match: the header fields it assigns.
VersionFields(hdr, m) ==
    [hdr EXCEPT !.version = m[1],
                !.registry = m[2],
                !.serial = ParseUint(m[3], MaxUint32),
                !.records = ParseUint(m[4], MaxUint32),
                !.startdate = IF m[5] = Zeros8 THEN EpochCompact ELSE m[5],
                !.enddate = m[6],
                !.UTCoffset = DivHundred(ParseInt32(m[7]))]

\* parseVersionLine below, without the log.Fatal of strict mode.
parseVersionLine_NoFatal(hdr, line, invalid_hdr_ok) ==
    LET m == VersionMatches(line)
    IN  IF m = <<>> THEN [res |-> "nohdr", hdr |-> hdr]
        ELSE [res |-> "ok", hdr |-> VersionFields(hdr, m)]

\* parseVersionLine: "ok" with the header filled, "fatal" (log.Fatal) on a
\* mismatch in strict mode, "nohdr" (return false) on a mismatch when
\* -invalid-header-ok is set.
parseVersionLine(hdr, line, invalid_hdr_ok) ==
    LET m == VersionMatches(line)
    IN  IF m = <<>>
        THEN [res |-> IF invalid_hdr_ok THEN "nohdr" ELSE "fatal", hdr |-> hdr]
        ELSE [res |-> "ok", hdr |-> VersionFields(hdr, m)]

\* ^(afrinic|apnic|arin|lacnic|ripencc)\|\*\|(asn|ipv4|ipv6)\|\*\|([0-9]+)\|summary
SummaryMatches(line) ==
    LET f == Fields(line, 5)
    IN  IF f = <<>> THEN <<>>
        ELSE IF /\ f[1] \in Registries /\ f[2] = Star /\ f[3] \in RecordTypes
                /\ f[4] = Star /\ IsDigits(f[5]) /\ HasPrefix(f[6], summary)
             THEN <<f[1], f[3], f[5]>>
             ELSE <<>>

\* parseSummaryLine: a matching line sets the count of its record type.
parseSummaryLine(hdr, line) ==
    LET m == SummaryMatches(line)
    IN  IF m = <<>> THEN hdr
        ELSE IF m[2] = ipv4 THEN [hdr EXCEPT !.ipv4Count = ParseUint(m[3], MaxUint64)]
        ELSE IF m[2] = asn THEN [hdr EXCEPT !.asnCount = ParseUint(m[3], MaxUint64)]
        ELSE [hdr EXCEPT !.ipv6Count = ParseUint(m[3], MaxUint64)]

(***************************************************************************)
(* bufio.Scanner over the byte stream.  The stream is the sequence of its  *)
(* raw lines (the text between newlines); ScanLines drops one trailing     *)
(* carriage return from each.                                              *)
(***************************************************************************)
DropCR(raw) ==
    IF Len(raw) > 0 /\ raw[Len(raw)] = CR THEN SubSeq(raw, 1, Len(raw) - 1) ELSE raw

\* scanner.Scan(); scanner.Text() for the i-th call: the empty string once
\* the stream is exhausted.
ScanText(stream, i) == IF i <= Len(stream) THEN DropCR(stream[i]) ELSE <<>>

\* The loop "for line[0] == '#' || line[0] == '\r'": the index of the first
\* line it does not skip; 0 when line[0] is evaluated on an empty line,
\* which is a run-time panic (index out of range).
RECURSIVE SkipComments(_, _)
SkipComments(stream, i) ==
    LET line == ScanText(stream, i)
    IN  IF line = <<>> THEN 0
        ELSE IF line[1] \in {Hash, CR} THEN SkipComments(stream, i + 1)
        ELSE i

\* "for i := 0; i < 3 && scanner.Scan(); i++": lines from+1 .. from+3, as
\* far as the stream goes, each given to parseSummaryLine.
SummaryLinesRead == 3

\* ReadSummaries below, leaving the loop at the first line that is no
\* summary line.
RECURSIVE ReadSummaries_StopAtMismatch(_, _, _, _)
ReadSummaries_StopAtMismatch(hdr, stream, from, n) ==
    IF \/ n = 0 \/ from >= Len(stream)
       \/ SummaryMatches(ScanText(stream, from + 1)) = <<>>
    THEN [hdr |-> hdr, pos |-> from]
    ELSE ReadSummaries_StopAtMismatch(parseSummaryLine(hdr, ScanText(stream, from + 1)),
                                      stream, from + 1, n - 1)

RECURSIVE ReadSummaries(_, _, _, _)
ReadSummaries(hdr, stream, from, n) ==
    IF n = 0 \/ from >= Len(stream) THEN [hdr |-> hdr, pos |-> from]
    ELSE ReadSummaries(parseSummaryLine(hdr, ScanText(stream, from + 1)),
                       stream, from + 1, n - 1)

\* parseHeader: res is "ok", "nohdr", "fatal" or "panic"; pos is the number
\* of lines the scanner has delivered when it returns.
parseHeader(stream, invalid_hdr_ok) ==
    LET i == SkipComments(stream, 1)
    IN  IF i = 0 THEN [res |-> "panic", hdr |-> ZeroHeader, pos |-> 0]
        ELSE LET v == parseVersionLine(ZeroHeader, ScanText(stream, i), invalid_hdr_ok)
             IN  IF v.res = "ok"
                 THEN LET s == ReadSummaries(v.hdr, stream, i, SummaryLinesRead)
                      IN  [res |-> "ok", hdr |-> s.hdr, pos |-> s.pos]
                 ELSE [res |-> v.res, hdr |-> v.hdr, pos |-> i]

(***************************************************************************)
(* The record regular expression                                           *)
(***************************************************************************)
\* The state keyword a text starts with, <<>> if none.
StatePrefix(s) ==
    IF \E w \in States : HasPrefix(s, w) THEN CHOOSE w \in States : HasPrefix(s, w) ELSE <<>>

\* ^(registry)\|([A-Z].|)\|(asn|ipv4|ipv6)\|([0-9a-f:.]+)\|([0-9]+)\|([0-9]+|)\|
\*  (allocated|assigned|available|reserved)(.*)$
\* <<>> when the line does not match, else the submatches 1..8.  The second
\* character of the country code is ".", any character, a bar included.
RecordMatches(line) ==
    LET i == IndexOfBar(line)
        reg == SubSeq(line, 1, i - 1)
        r == Drop(line, i)
        ccLen == IF Len(r) >= 3 /\ r[1] \in Upper /\ r[3] = Bar THEN 2
                 ELSE IF Len(r) >= 1 /\ r[1] = Bar THEN 0
                 ELSE 3
        f == Fields(Drop(r, ccLen + 1), 4)
    IN  IF i = 0 \/ reg \notin Registries \/ ccLen = 3 \/ f = <<>> THEN <<>>
        ELSE IF /\ f[1] \in RecordTypes
                /\ Len(f[2]) > 0 /\ AllIn(f[2], ValueChars)
                /\ IsDigits(f[3])
                /\ AllIn(f[4], DigitSet)
                /\ StatePrefix(f[5]) # <<>>
             THEN <<reg, SubSeq(r, 1, ccLen), f[1], f[2], f[3], f[4],
                    StatePrefix(f[5]), Drop(f[5], Len(StatePrefix(f[5])))>>
             ELSE <<>>

(***************************************************************************)
(* The store.  Datasets is a set of rows with their ID, which the other    *)
(* tables refer to; Summaries and Records_* are bags of rows without their *)
(* surrogate key, so that a row stored twice shows.  nextID is the         *)
(* AUTO_INCREMENT of Datasets.  The INSERT statements of the program give  *)
(* the column order; db_schema.txt gives the UNIQUE constraints.  Row      *)
(* validation is that of a store in strict SQL mode.                       *)
(***************************************************************************)
\* Datasets row written by "INSERT INTO Datasets VALUES( DEFAULT, ?, ... )".
DatasetRow(id, h) ==
    [ID |-> id, registry |-> h.registry, serial |-> h.serial, version |-> h.version,
     records |-> h.records, startdate |-> h.startdate, enddate |-> h.enddate,
     UTCoffset |-> h.UTCoffset]

\* UNIQUE(ID_Registries, serial)
DatasetDuplicates(store, h) ==
    {d \in store.datasets : d.registry = h.registry /\ d.serial = h.serial}

\* The declared count saveHeaderData sends for a record type.
SummaryCount(h, k) ==
    IF k = ipv4 THEN h.ipv4Count ELSE IF k = asn THEN h.asnCount ELSE h.ipv6Count

SummaryRow(id, k, h) == [ds |-> id, type |-> k, count |-> SummaryCount(h, k)]

\* UNIQUE(ID_Datasets, RecordType)
SummaryDuplicate(store, row) ==
    \E r \in BagToSet(store.summaries) : r.ds = row.ds /\ r.type = row.type

\* INET_ATON on the dotted form: the octets, or <<>> (NULL) when the text
\* is not one to four decimal parts of at most 255 (the last part of a
\* short form fills the remaining octets, which is left as written).
RECURSIVE SplitDots(_)
SplitDots(s) ==
    IF \E i \in 1..Len(s) : s[i] = "."
    THEN LET i == CHOOSE i \in 1..Len(s) : s[i] = "." /\ \A j \in 1..(i - 1) : s[j] # "."
         IN  <<SubSeq(s, 1, i - 1)>> \o SplitDots(Drop(s, i))
    ELSE <<s>>

OctetMax == <<"2", "5", "5">>
InetAton(s) ==
    LET parts == SplitDots(s)
    IN  IF /\ Len(parts) <= 4
           /\ \A i \in 1..Len(parts) : IsDigits(parts[i]) /\ ~NumLess(OctetMax, Canon(parts[i]))
        THEN [i \in 1..Len(parts) |-> Canon(parts[i])]
        ELSE <<>>

\* The conversion the prepared statement applies to the value parameter:
\* INET_ATON(?) for ipv4, INET6_ATON(?) for ipv6, the number itself for asn.
\* <<>> is a value the column rejects.
StoreValue(type, value) ==
    IF type = ipv4 THEN InetAton(value)
    ELSE IF type = asn THEN (IF IsDigits(value) /\ ~NumLess(MaxUint32, Canon(value))
                             THEN <<Canon(value)>> ELSE <<>>)
    ELSE (IF \E i \in 1..Len(value) : value[i] = ":" THEN <<value>> ELSE <<>>)

\* A DATE column takes yyyymmdd and yyyy-mm-dd; <<>> is a rejected value.
StoreDate(d) ==
    IF d = EpochDashed THEN EpochCompact
    ELSE IF Len(d) = Len(Zeros8) THEN d
    ELSE <<>>

\* Records_<type> row written by the prepared statement for submatches m,
\* after the date replacement of the streaming loop.
RecordRow(id, m) ==
    [type |-> m[3], ds |-> id, registry |-> m[1], cc |-> m[2],
     first |-> StoreValue(m[3], m[4]), count |-> Canon(m[5]),
     date |-> StoreDate(m[6]), state |-> m[7], opaque |-> m[8]]

\* UNIQUE(ID_Registries, CC, <first>, <count>, RecordDate, State), per table.
\* (RecordDuplicate_NoIndex: the table without its UNIQUE constraint.)
RecordDuplicate_NoIndex(store, row) == FALSE
RecordKey(r) == <<r.type, r.registry, r.cc, r.first, r.count, r.date, r.state>>
RecordDuplicate(store, row) ==
    \E r \in BagToSet(store.records) : r.type = row.type /\ RecordKey(r) = RecordKey(row)

\* The widest count each table's column takes: HostCount INT UNSIGNED,
\* ASNCount SMALLINT UNSIGNED, PrefixLen TINYINT UNSIGNED.
MaxSmallint == <<"6", "5", "5", "3", "5">>
MaxTinyint == <<"2", "5", "5">>
CountMax(type) ==
    IF type = ipv4 THEN MaxUint32 ELSE IF type = asn THEN MaxSmallint ELSE MaxTinyint

\* The statement fails (strict SQL mode): no address, no date, or a count
\* out of the column's range.
RecordRejected(row) ==
    \/ row.first = <<>>
    \/ row.date = <<>>
    \/ NumLess(CountMax(row.type), row.count)

\* What the store answers to the Dataset insert: "ok", "dup" (error 1062)
\* or "err" (another error).  A header that was never filled has no
\* registry of the ENUM; the store rejects it or stores it, by its SQL mode.
DatasetOutcomes(store, h) ==
    (IF DatasetDuplicates(store, h) # {} THEN {"dup"} ELSE {"ok"})
        \cup (IF h.registry \notin Registries THEN {"err"} ELSE {})

SummaryOutcome(store, row) == IF SummaryDuplicate(store, row) THEN "dup" ELSE "ok"

RecordOutcome(store, row) ==
    IF RecordRejected(row) THEN "err"
    ELSE IF RecordDuplicate(store, row) THEN "dup"
    ELSE "ok"

EmptyStore == [datasets |-> {}, summaries |-> EmptyBag, records |-> EmptyBag, nextID |-> 1]

\* The rows of a store.
Rows(store) == [datasets |-> store.datasets, summaries |-> store.summaries,
                records |-> store.records]

(***************************************************************************)
(* Input lines and streams                                                 *)
(***************************************************************************)
RECURSIVE Join(_)
Join(fs) == IF Len(fs) = 1 THEN fs[1] ELSE fs[1] \o <<Bar>> \o Join(Tail(fs))

V23 == <<"2", ".", "3">>
D20230101 == <<"2", "0", "2", "3", "0", "1", "0", "1">>
JP == <<"J", "P">>

\* 2.3|apnic|20230101|3|00000000|20230101|+1000
VerLine == Join(<<V23, apnic, D20230101, <<"3">>, Zeros8, D20230101, <<"+", "1", "0", "0", "0">>>>)
Sum4Line == Join(<<apnic, Star, ipv4, Star, <<"2">>, summary>>)
SumALine == Join(<<apnic, Star, asn, Star, <<"1">>, summary>>)
Sum6Line == Join(<<apnic, Star, ipv6, Star, <<"1">>, summary>>)
\* 2.3|apnic|20230101|3|20230101|20230101|900|
TrailLine == Join(<<V23, apnic, D20230101, <<"3">>, D20230101, D20230101, <<"9", "0", "0">>, <<>>>>)
\* 2|arin|4294967296|3|20230101|20230101|-0930
Pow32 == <<"4", "2", "9", "4", "9", "6", "7", "2", "9", "6">>
BigLine == Join(<<<<"2">>, arin, Pow32, <<"3">>, D20230101, D20230101, <<"-", "0", "9", "3", "0">>>>)
GarbageLine == <<"x", "|", "y">>
StrayCRLine == <<CR, "x">>
CommentLine == <<Hash, "c">>
BlankLine == <<>>
CRLine == <<CR>>

\* apnic|JP|ipv4|1.2.0.0|8|20230101|allocated
Rec4Line == Join(<<apnic, JP, ipv4, <<"1", ".", "2", ".", "0", ".", "0">>, <<"8">>, D20230101, allocated>>)
\* apnic|JP|asn|7|1|00000000|assigned
RecALine == Join(<<apnic, JP, asn, <<"7">>, <<"1">>, Zeros8, assigned>>)
\* apnic||ipv6|2a::|32||reserved|id
Rec6Line == Join(<<apnic, <<>>, ipv6, <<"2", "a", ":", ":">>, <<"3", "2">>, <<>>, reserved, <<"i", "d">>>>)
\* apnic|JP|ipv4|:|1||available   (matches the pattern; no address)
RecNullLine == Join(<<apnic, JP, ipv4, <<":">>, <<"1">>, <<>>, available>>)
\* apnic|JP|asn|x|1||assigned     (does not match the pattern)
BadLine == Join(<<apnic, JP, asn, <<"x">>, <<"1">>, <<>>, assigned>>)
\* apnic|JP|asn|7|65536||assigned (matches the pattern; the count is too wide)
RecWideLine == Join(<<apnic, JP, asn, <<"7">>, <<"6", "5", "5", "3", "6">>, <<>>, assigned>>)

RecordLines == {Rec4Line, RecALine, Rec6Line, RecNullLine, BadLine, CommentLine}

MaxRecs == 2
RECURSIVE SeqsUpTo(_, _)
SeqsUpTo(S, n) ==
    IF n = 0 THEN {<<>>}
    ELSE LET shorter == SeqsUpTo(S, n - 1)
         IN  shorter \cup {Append(t, x) : t \in {u \in shorter : Len(u) = n - 1}, x \in S}

FullHead == <<VerLine, Sum4Line, SumALine, Sum6Line>>
SampleTail == <<Rec4Line, RecALine>>
OtherHeads ==
    {<<VerLine, Sum4Line>>, <<GarbageLine>>, <<CommentLine>> \o FullHead,
     <<BlankLine>> \o FullHead, <<CRLine>> \o FullHead,
     <<BlankLine, GarbageLine>>, <<StrayCRLine, GarbageLine>>,
     <<TrailLine, SumALine, Sum6Line, Sum4Line>>, <<BigLine, Sum4Line, SumALine, Sum6Line>>}

Streams ==
    {FullHead \o t : t \in SeqsUpTo(RecordLines, MaxRecs)}
        \cup {h \o SampleTail : h \in OtherHeads}
        \cup {FullHead \o <<BlankLine>>, FullHead \o <<Rec4Line, CRLine, RecALine>>,
              FullHead \o <<RecWideLine>>}
        \cup {<<VerLine>>, <<VerLine, Sum6Line>>, <<VerLine, Sum6Line, Rec6Line, Sum6Line>>}
        \cup {<<>>, <<CommentLine>>, <<CommentLine, BlankLine>>}

\* A store that already holds the Dataset (apnic, 20230101) under other
\* header values, one of its Summaries, and the row of Rec4Line.
OldHeader ==
    [ZeroHeader EXCEPT !.version = <<"2">>, !.registry = apnic, !.serial = D20230101,
                       !.records = <<"9">>, !.startdate = D20230101, !.enddate = D20230101]
SeededStore ==
    [datasets |-> {DatasetRow(1, OldHeader)},
     summaries |-> SetToBag({[ds |-> 1, type |-> ipv4, count |-> <<"9">>]}),
     records |-> SetToBag({RecordRow(1, RecordMatches(Rec4Line))}),
     nextID |-> 2]
InitialStores == {EmptyStore, SeededStore}

(***************************************************************************)
(* State                                                                   *)
(***************************************************************************)
VARIABLES
    data,               \* the byte stream given to parseData, as raw lines
    f_force,            \* -force
    f_invalid_hdr_ok,   \* -invalid-header-ok
    pc,                 \* where the run is
    pos,                \* lines the scanner has delivered
    hdr,                \* var hdr FileHeader
    lastID,             \* the Dataset ID returned by saveHeaderData
    pending,            \* record types whose Summary insert is still to come
    stmts,              \* record type -> its statement was prepared
    counter,            \* the counter map of the streaming loop
    db,                 \* the store
    hdrRes,             \* how parseHeader ended in this run
    attempts,           \* inserts sent to the store and warnings, this run
    db0,                \* the store when this run started
    prev                \* the run before this one, or NoRun

vars == <<data, f_force, f_invalid_hdr_ok, pc, pos, hdr, lastID, pending, stmts,
          counter, db, hdrRes, attempts, db0, prev>>

Running == {"Start", "HeaderParsed", "DatasetPersisted", "SummariesPersisted",
            "StreamingRecords"}
Terminal == {"Finished", "Aborted", "Crashed", "Interrupted"}

NoRun == [pc |-> "none"]
ZeroCounter == [ipv4 |-> 0, asn |-> 0, ipv6 |-> 0, all |-> 0, invalid |-> 0]
NoAttempts == [ds |-> 0, sum |-> 0, rec |-> 0, warn |-> 0]
NoStmts == [t \in RecordTypes |-> FALSE]

RunInit ==
    /\ pc = "Start"
    /\ pos = 0
    /\ hdr = ZeroHeader
    /\ lastID = 0
    /\ pending = {}
    /\ stmts = NoStmts
    /\ counter = ZeroCounter
    /\ hdrRes = "none"
    /\ attempts = NoAttempts

Init ==
    /\ data \in Streams
    /\ f_force \in BOOLEAN
    /\ f_invalid_hdr_ok \in BOOLEAN
    /\ db \in InitialStores
    /\ db0 = db
    /\ prev = NoRun
    /\ RunInit

(***************************************************************************)
(* parseData, one step per store round trip                                *)
(***************************************************************************)
\* parseHeader(scanner, &hdr): no store access.  log.Fatal ends the run in
\* "Aborted", a run-time panic in "Crashed".
ParseHeader ==
    /\ pc = "Start"
    /\ LET r == parseHeader(data, f_invalid_hdr_ok)
       IN  /\ hdr' = r.hdr
           /\ pos' = r.pos
           /\ hdrRes' = r.res
           /\ pc' = IF r.res = "panic" THEN "Crashed"
                    ELSE IF r.res = "fatal" THEN "Aborted"
                    ELSE "HeaderParsed"
    /\ UNCHANGED <<data, f_force, f_invalid_hdr_ok, lastID, pending, stmts, counter,
                   db, attempts, db0, prev>>

\* SaveDataset below, with the duplicate branch taken whatever -force is.
SaveDataset_IgnoreForce(store, h, force, out) ==
    IF out = "ok"
    THEN [pc |-> "DatasetPersisted", lastID |-> store.nextID,
          db |-> [store EXCEPT !.datasets = @ \cup {DatasetRow(store.nextID, h)},
                               !.nextID = @ + 1]]
    ELSE IF out = "dup"
    THEN [pc |-> "DatasetPersisted", db |-> store,
          lastID |-> (CHOOSE d \in DatasetDuplicates(store, h) : TRUE).ID]
    ELSE [pc |-> "Aborted", lastID |-> 0, db |-> store]

\* SaveDataset below, with the SELECT of the existing ID left out.
SaveDataset_NoLookup(store, h, force, out) ==
    IF out = "ok"
    THEN [pc |-> "DatasetPersisted", lastID |-> store.nextID,
          db |-> [store EXCEPT !.datasets = @ \cup {DatasetRow(store.nextID, h)},
                               !.nextID = @ + 1]]
    ELSE IF out = "dup" /\ force
    THEN [pc |-> "DatasetPersisted", db |-> store, lastID |-> 0]
    ELSE [pc |-> "Aborted", lastID |-> 0, db |-> store]

\* SaveDataset below, with the duplicate row rewritten from the new header.
SaveDataset_Replace(store, h, force, out) ==
    IF out = "ok"
    THEN [pc |-> "DatasetPersisted", lastID |-> store.nextID,
          db |-> [store EXCEPT !.datasets = @ \cup {DatasetRow(store.nextID, h)},
                               !.nextID = @ + 1]]
    ELSE IF out = "dup" /\ force
    THEN LET old == CHOOSE d \in DatasetDuplicates(store, h) : TRUE
         IN  [pc |-> "DatasetPersisted", lastID |-> old.ID,
              db |-> [store EXCEPT !.datasets = (@ \ {old}) \cup {DatasetRow(old.ID, h)}]]
    ELSE [pc |-> "Aborted", lastID |-> 0, db |-> store]

\* saveHeaderData up to the Dataset ID: [pc, db, lastID] for the store's
\* answer out.  A duplicate is looked up with -force and fatal without;
\* any other error is fatal.
SaveDataset(store, h, force, out) ==
    IF out = "ok"
    THEN [pc |-> "DatasetPersisted", lastID |-> store.nextID,
          db |-> [store EXCEPT !.datasets = @ \cup {DatasetRow(store.nextID, h)},
                               !.nextID = @ + 1]]
    ELSE IF out = "dup" /\ force
    THEN [pc |-> "DatasetPersisted", db |-> store,
          lastID |-> (CHOOSE d \in DatasetDuplicates(store, h) : TRUE).ID]
    ELSE [pc |-> "Aborted", lastID |-> 0, db |-> store]

InsertDataset ==
    /\ pc = "HeaderParsed"
    /\ \E out \in DatasetOutcomes(db, hdr) :
          LET r == SaveDataset(db, hdr, f_force, out)
          IN  /\ pc' = r.pc
              /\ db' = r.db
              /\ lastID' = r.lastID
    /\ pending' = IF pc' = "DatasetPersisted" THEN RecordTypes ELSE pending
    /\ attempts' = [attempts EXCEPT !.ds = @ + 1]
    /\ UNCHANGED <<data, f_force, f_invalid_hdr_ok, pos, hdr, stmts, counter,
                   hdrRes, db0, prev>>

\* One iteration of "for k := range summaries": the insert of one Summary;
\* an error (a duplicate) is a warning.
SaveSummary(store, id, k, h) ==
    IF SummaryOutcome(store, SummaryRow(id, k, h)) = "ok"
    THEN [store EXCEPT !.summaries = @ (+) SetToBag({SummaryRow(id, k, h)})]
    ELSE store

\* InsertSummary below, with a failed insert ending the run.
InsertSummary_FatalOnError ==
    /\ pc = "DatasetPersisted"
    /\ \E k \in pending :
          /\ db' = SaveSummary(db, lastID, k, hdr)
          /\ pending' = pending \ {k}
          /\ attempts' = [attempts EXCEPT !.sum = @ + 1]
          /\ pc' = IF SummaryOutcome(db, SummaryRow(lastID, k, hdr)) # "ok" THEN "Aborted"
                   ELSE IF pending' = {} THEN "SummariesPersisted" ELSE pc
    /\ UNCHANGED <<data, f_force, f_invalid_hdr_ok, pos, hdr, lastID, stmts, counter,
                   hdrRes, db0, prev>>

InsertSummary ==
    /\ pc = "DatasetPersisted"
    /\ \E k \in pending :
          /\ db' = SaveSummary(db, lastID, k, hdr)
          /\ pending' = pending \ {k}
          /\ attempts' = [attempts EXCEPT
                            !.sum = @ + 1,
                            !.warn = IF SummaryOutcome(db, SummaryRow(lastID, k, hdr)) = "ok"
                                     THEN @ ELSE @ + 1]
    /\ pc' = IF pending' = {} THEN "SummariesPersisted" ELSE pc
    /\ UNCHANGED <<data, f_force, f_invalid_hdr_ok, pos, hdr, lastID, stmts, counter,
                   hdrRes, db0, prev>>

\* db.Prepare of the three statements.  The text carries hdr.enddate
\* unquoted as its last value: with no end date the statement does not
\* parse, Prepare returns an error and the statement stays nil.
Prepared(h) == [t \in RecordTypes |-> h.enddate # <<>>]

PrepareStatements ==
    /\ pc = "SummariesPersisted"
    /\ stmts' = Prepared(hdr)
    /\ counter' = ZeroCounter
    /\ pc' = "StreamingRecords"
    /\ UNCHANGED <<data, f_force, f_invalid_hdr_ok, pos, hdr, lastID, pending,
                   db, hdrRes, attempts, db0, prev>>

\* FixDate below, without the test for the empty date.
FixDate_ZerosOnly(m) == IF m[6] = Zeros8 THEN [m EXCEPT ![6] = EpochDashed] ELSE m

\* matches[6] == "00000000" || matches[6] == ""  ->  "1970-01-01"
FixDate(m) == IF m[6] = Zeros8 \/ m[6] = <<>> THEN [m EXCEPT ![6] = EpochDashed] ELSE m

\* recordTypes[matches[3]].Exec(...): the tables afterwards.
ExecRecord(store, id, m) ==
    IF RecordOutcome(store, RecordRow(id, m)) = "ok"
    THEN [store EXCEPT !.records = @ (+) SetToBag({RecordRow(id, m)})]
    ELSE store

\* RecordWarns below, without the test of -force.
RecordWarns_Always(out, force) == out # "ok"

\* The warning of the streaming loop: printed unless the error is a
\* duplicate and -force is set.
RecordWarns(out, force) == out # "ok" /\ ~(out = "dup" /\ force)

\* Count below, with the invalid counter bumped for every line.
Count_AlsoInvalid(c, m) ==
    LET d == IF m = <<>> THEN c
             ELSE IF m[3] = ipv4 THEN [c EXCEPT !.ipv4 = @ + 1]
             ELSE IF m[3] = asn THEN [c EXCEPT !.asn = @ + 1]
             ELSE [c EXCEPT !.ipv6 = @ + 1]
    IN  [d EXCEPT !.all = @ + 1, !.invalid = @ + 1]

\* counter[matches[3]]++ / counter["invalid"]++, then counter["all"]++.
Count(c, m) ==
    LET d == IF m = <<>> THEN [c EXCEPT !.invalid = @ + 1]
             ELSE IF m[3] = ipv4 THEN [c EXCEPT !.ipv4 = @ + 1]
             ELSE IF m[3] = asn THEN [c EXCEPT !.asn = @ + 1]
             ELSE [c EXCEPT !.ipv6 = @ + 1]
    IN  [d EXCEPT !.all = @ + 1]

\* StreamLine below, with a line counted under its type only when its row
\* was stored, and as invalid when not.
StreamLine_CountStored ==
    /\ pc = "StreamingRecords"
    /\ pos < Len(data)
    /\ pos' = pos + 1
    /\ LET m == RecordMatches(ScanText(data, pos + 1))
       IN  IF m # <<>> /\ ~stmts[m[3]]
           THEN /\ pc' = "Crashed"
                /\ UNCHANGED <<db, counter, attempts>>
           ELSE /\ pc' = pc
                /\ IF m = <<>>
                   THEN /\ counter' = Count(counter, m)
                        /\ UNCHANGED <<db, attempts>>
                   ELSE LET row == RecordRow(lastID, FixDate(m))
                        IN  /\ counter' = IF RecordOutcome(db, row) = "ok"
                                          THEN Count(counter, m)
                                          ELSE Count(counter, <<>>)
                            /\ db' = ExecRecord(db, lastID, FixDate(m))
                            /\ attempts' = [attempts EXCEPT
                                   !.rec = @ + 1,
                                   !.warn = IF RecordWarns(RecordOutcome(db, row), f_force)
                                            THEN @ + 1 ELSE @]
    /\ UNCHANGED <<data, f_force, f_invalid_hdr_ok, hdr, lastID, pending, stmts,
                   hdrRes, db0, prev>>

\* One iteration of the streaming loop.  Exec on a statement that was never
\* prepared dereferences nil: the run panics before it counts the line.
StreamLine ==
    /\ pc = "StreamingRecords"
    /\ pos < Len(data)
    /\ pos' = pos + 1
    /\ LET m == RecordMatches(ScanText(data, pos + 1))
       IN  IF m # <<>> /\ ~stmts[m[3]]
           THEN /\ pc' = "Crashed"
                /\ UNCHANGED <<db, counter, attempts>>
           ELSE /\ pc' = pc
                /\ counter' = Count(counter, m)
                /\ IF m = <<>>
                   THEN UNCHANGED <<db, attempts>>
                   ELSE LET row == RecordRow(lastID, FixDate(m))
                        IN  /\ db' = ExecRecord(db, lastID, FixDate(m))
                            /\ attempts' = [attempts EXCEPT
                                   !.rec = @ + 1,
                                   !.warn = IF RecordWarns(RecordOutcome(db, row), f_force)
                                            THEN @ + 1 ELSE @]
    /\ UNCHANGED <<data, f_force, f_invalid_hdr_ok, hdr, lastID, pending, stmts,
                   hdrRes, db0, prev>>

\* scanner.Scan() returns false: the counters are printed and parseData
\* returns, running the deferred Close of each statement (a panic on nil).
EndOfStream ==
    /\ pc = "StreamingRecords"
    /\ pos = Len(data)
    /\ pc' = IF \A t \in RecordTypes : stmts[t] THEN "Finished" ELSE "Crashed"
    /\ UNCHANGED <<data, f_force, f_invalid_hdr_ok, pos, hdr, lastID, pending, stmts,
                   counter, db, hdrRes, attempts, db0, prev>>

\* The process ends between two steps (no transaction spans a run).
Interrupt ==
    /\ pc \in Running
    /\ pc' = "Interrupted"
    /\ UNCHANGED <<data, f_force, f_invalid_hdr_ok, pos, hdr, lastID, pending, stmts,
                   counter, db, hdrRes, attempts, db0, prev>>

\* The program is started once more on the same stream and store.
Rerun ==
    /\ pc \in Terminal
    /\ prev = NoRun
    /\ prev' = [pc |-> pc, force |-> f_force, hdrRes |-> hdrRes, db0 |-> db0,
                db |-> db, counter |-> counter, attempts |-> attempts]
    /\ f_force' \in BOOLEAN
    /\ db0' = db
    /\ pc' = "Start"
    /\ pos' = 0
    /\ hdr' = ZeroHeader
    /\ lastID' = 0
    /\ pending' = {}
    /\ stmts' = NoStmts
    /\ counter' = ZeroCounter
    /\ hdrRes' = "none"
    /\ attempts' = NoAttempts
    /\ UNCHANGED <<data, f_invalid_hdr_ok, db>>

Next ==
    \/ ParseHeader
    \/ InsertDataset
    \/ InsertSummary
    \/ PrepareStatements
    \/ StreamLine
    \/ EndOfStream
    \/ Interrupt
    \/ Rerun

Spec == Init /\ [][Next]_vars

(***************************************************************************)
(* parseData from start to end on a store that answers every statement,    *)
(* for a stream whose header parses: the store it leaves.                  *)
(***************************************************************************)
RECURSIVE StreamAll(_, _, _, _)
StreamAll(store, id, stream, from) ==
    IF from >= Len(stream) THEN store
    ELSE LET m == RecordMatches(ScanText(stream, from + 1))
         IN  StreamAll(IF m = <<>> THEN store ELSE ExecRecord(store, id, FixDate(m)),
                       id, stream, from + 1)

SaveSummaries(store, id, h) ==
    SaveSummary(SaveSummary(SaveSummary(store, id, ipv4, h), id, asn, h), id, ipv6, h)

FullRun(store, stream, force) ==
    LET p == parseHeader(stream, FALSE)
        d == SaveDataset(store, p.hdr, force, CHOOSE o \in DatasetOutcomes(store, p.hdr) : TRUE)
    IN  IF p.res # "ok" \/ d.pc = "Aborted" THEN store
        ELSE StreamAll(SaveSummaries(d.db, d.lastID, p.hdr), d.lastID, stream, p.pos)

(***************************************************************************)
(* parseHeader alone, over version lines built from field values           *)
(***************************************************************************)
VersionTexts == {<<"2">>, V23}
SerialTexts == {D20230101, <<"0", "0", "7">>, MaxUint32, Pow32}
CountTexts == {<<"3">>, Pow32}
StartTexts == {Zeros8, D20230101}
OffsetTexts == {<<"9", "0", "0">>, <<"+", "1", "0", "0", "0">>, <<"-", "0", "9", "3", "0">>, <<"0">>}
ExtraTexts == {<<>>, <<Bar>>, <<Bar, "x">>}
LeadingLines == {<<>>, <<CommentLine>>, <<BlankLine>>, <<CRLine>>, <<CommentLine, CommentLine>>,
                 <<CommentLine, BlankLine>>}

ParseStreams ==
    {lead \o <<Join(<<v, apnic, s, c, d, D20230101, o>>) \o x, Sum4Line>> :
        lead \in LeadingLines, v \in VersionTexts, s \in SerialTexts, c \in CountTexts,
        d \in StartTexts, o \in OffsetTexts, x \in ExtraTexts}

InitParse ==
    /\ data \in ParseStreams
    /\ f_force = FALSE
    /\ f_invalid_hdr_ok \in BOOLEAN
    /\ db = EmptyStore
    /\ db0 = db
    /\ prev = NoRun
    /\ RunInit

NextParse == ParseHeader

SpecParse == InitParse /\ [][NextParse]_vars

(***************************************************************************)
(* parseData on a store whose connection may fail: Exec then returns an    *)
(* error that is not a *mysql.MySQLError                                   *)
(***************************************************************************)
\* The Dataset insert: driverErr, _ := err.(*mysql.MySQLError) leaves
\* driverErr nil and driverErr.Number panics.
DatasetExecFails ==
    /\ pc = "HeaderParsed"
    /\ pc' = "Crashed"
    /\ attempts' = [attempts EXCEPT !.ds = @ + 1]
    /\ UNCHANGED <<data, f_force, f_invalid_hdr_ok, pos, hdr, lastID, pending, stmts,
                   counter, db, hdrRes, db0, prev>>

\* One Summary insert: the error is printed as a warning, the loop goes on.
SummaryExecFails ==
    /\ pc = "DatasetPersisted"
    /\ \E k \in pending :
          /\ pending' = pending \ {k}
          /\ attempts' = [attempts EXCEPT !.sum = @ + 1, !.warn = @ + 1]
    /\ pc' = IF pending' = {} THEN "SummariesPersisted" ELSE pc
    /\ UNCHANGED <<data, f_force, f_invalid_hdr_ok, pos, hdr, lastID, stmts, counter,
                   db, hdrRes, db0, prev>>

\* One Record insert: driverErr is nil and driverErr.Number panics, before
\* the line is counted.
RecordExecFails ==
    /\ pc = "StreamingRecords"
    /\ pos < Len(data)
    /\ LET m == RecordMatches(ScanText(data, pos + 1))
       IN  m # <<>> /\ stmts[m[3]]
    /\ pos' = pos + 1
    /\ pc' = "Crashed"
    /\ attempts' = [attempts EXCEPT !.rec = @ + 1]
    /\ UNCHANGED <<data, f_force, f_invalid_hdr_ok, hdr, lastID, pending, stmts,
                   counter, db, hdrRes, db0, prev>>

FaultStreams == {FullHead \o t : t \in SeqsUpTo({Rec4Line, BadLine}, MaxRecs)}

InitFaults ==
    /\ data \in FaultStreams
    /\ f_force \in BOOLEAN
    /\ f_invalid_hdr_ok \in BOOLEAN
    /\ db \in InitialStores
    /\ db0 = db
    /\ prev = NoRun
    /\ RunInit

NextFaults ==
    \/ Next
    \/ DatasetExecFails
    \/ SummaryExecFails
    \/ RecordExecFails

SpecFaults == InitFaults /\ [][NextFaults]_vars

(***************************************************************************)
(* Properties                                                              *)
(***************************************************************************)
\* Line classes as the specification words them.
IsComment(line) == Len(line) > 0 /\ line[1] = Hash
IsBlank(line) == line = <<>>
IsLeading(line) == IsComment(line) \/ IsBlank(line) \/ line[1] = CR

\* The index of the first line that is neither comment nor blank, 0 if none.
FirstSignificant(stream) ==
    LET S == {i \in 1..Len(stream) : ~IsLeading(ScanText(stream, i))}
    IN  IF S = {} THEN 0 ELSE CHOOSE i \in S : \A j \in S : i <= j

SignificantLine(stream) == ScanText(stream, FirstSignificant(stream))
HeaderMatches(stream) ==
    FirstSignificant(stream) # 0 /\ VersionMatches(SignificantLine(stream)) # <<>>
HeaderMismatches(stream) ==
    FirstSignificant(stream) # 0 /\ VersionMatches(SignificantLine(stream)) = <<>>
BlankBeforeHeader(stream) ==
    \E i \in 1..(FirstSignificant(stream) - 1) : IsBlank(ScanText(stream, i))

\* C1: for a stream with a matching version line, when a run with -force
\* has ended, a second run of the same stream with -force leaves, at every
\* point, exactly the Dataset, Summary and Record rows the first run left:
\* no row is added to any table.
C1_ForceIdempotent ==
    (/\ prev.pc \in {"Finished", "Aborted", "Crashed"} /\ HeaderMatches(data)
     /\ prev.force /\ f_force) => Rows(db) = Rows(prev.db)

C1_Witness ==
    /\ prev.pc = "Finished" /\ prev.force /\ f_force /\ pc = "Finished"
    /\ attempts.rec = MaxRecs /\ attempts.sum = SummaryLinesRead
    /\ Rows(prev.db) # Rows(prev.db0)

\* C2: after a finished run, a second run of the same stream without -force
\* ends at the Dataset insert: the insert is fatal, and the run sends no
\* Summary insert and no Record insert.
C2_DuplicateDatasetFatal ==
    (prev.pc = "Finished" /\ ~f_force) =>
        /\ pc \in {"Start", "HeaderParsed", "Aborted", "Interrupted"}
        /\ attempts.sum = 0 /\ attempts.rec = 0
        /\ attempts.ds = 1 => pc = "Aborted"
        /\ Rows(db) = Rows(prev.db)

C2_Witness ==
    prev.pc = "Finished" /\ ~f_force /\ pc = "Aborted" /\ attempts.ds = 1

\* C3: when a run whose header parsed was cut off after its Dataset insert
\* (before, between or after its Summary inserts, or after any number of
\* record lines), a complete run of the same stream with -force ends in
\* Finished and leaves the rows one uninterrupted run on the first run's
\* initial store leaves.
C3_InterruptedRunRecovers ==
    (/\ prev.pc = "Interrupted" /\ prev.attempts.ds = 1 /\ prev.hdrRes = "ok"
     /\ f_force /\ pc \in {"Finished", "Aborted", "Crashed"}) =>
        /\ pc = "Finished"
        /\ Rows(db) = Rows(FullRun(prev.db0, data, TRUE))

C3_Witness ==
    /\ prev.pc = "Interrupted" /\ prev.hdrRes = "ok" /\ prev.counter.all = 1
    /\ prev.attempts.rec = 1 /\ f_force /\ pc = "Finished"
    /\ Rows(db) # Rows(prev.db) /\ Rows(prev.db) # Rows(prev.db0)

\* The lines the claim C4 counts: not the version line, not a summary line,
\* not a comment, not blank.
TotalLinesProcessed(stream) ==
    Cardinality({i \in 1..Len(stream) :
        LET l == ScanText(stream, i)
        IN  /\ ~IsComment(l) /\ ~IsBlank(l)
            /\ VersionMatches(l) = <<>> /\ SummaryMatches(l) = <<>>})

\* The feed starts with its version line and three summary lines.
HeaderComplete(stream) ==
    /\ Len(stream) > SummaryLinesRead
    /\ VersionMatches(ScanText(stream, 1)) # <<>>
    /\ \A i \in 2..(SummaryLinesRead + 1) : SummaryMatches(ScanText(stream, i)) # <<>>

\* C4 (as claimed, for a feed with its full header): at the end of a run
\* that reached the end of the stream, invalid + ipv4 + asn + ipv6 is the
\* number of lines that are not version, summary, comment or blank lines,
\* that is, comment and blank lines among the records add to no counter.
C4_CountersSum ==
    (pc = "Finished" /\ HeaderComplete(data)) =>
        counter.invalid + counter.ipv4 + counter.asn + counter.ipv6
            = TotalLinesProcessed(data)

\* C5: every iteration of the streaming loop adds one to exactly one of the
\* counters ipv4, ipv6, asn, invalid: to the counter of the line's record
\* type when the line matches the record pattern, to invalid when not.
C5_OneCounterPerLine ==
    [][(pc = "StreamingRecords" /\ pc' = "StreamingRecords" /\ pos' = pos + 1) =>
         LET m == RecordMatches(ScanText(data, pos + 1))
             d4 == counter'.ipv4 - counter.ipv4
             d6 == counter'.ipv6 - counter.ipv6
             da == counter'.asn - counter.asn
             di == counter'.invalid - counter.invalid
         IN  /\ {d4, d6, da, di} \subseteq {0, 1}
             /\ d4 + d6 + da + di = 1
             /\ counter'.all = counter.all + 1
             /\ m = <<>> <=> di = 1
             /\ m # <<>> => /\ m[3] = ipv4 <=> d4 = 1
                            /\ m[3] = ipv6 <=> d6 = 1
                            /\ m[3] = asn <=> da = 1]_vars

C5_Witness ==
    /\ pc = "StreamingRecords" /\ counter.all = MaxRecs
    /\ counter.invalid = 1 /\ counter.ipv6 = 1

\* C6 (as claimed): a matching version line gives a header whose registry
\* is the registry field, whose serial and record count are the values of
\* their fields whatever their size, and whose start date is the field
\* with 00000000 replaced by the epoch date.
C6_HeaderEcho ==
    (hdrRes = "ok" /\ HeaderMatches(data)) =>
        LET f == Fields(SignificantLine(data), 6)
        IN  /\ hdr.registry = f[2]
            /\ hdr.serial = Canon(f[3])
            /\ hdr.records = Canon(f[4])
            /\ hdr.startdate = IF f[5] = Zeros8 THEN EpochCompact ELSE f[5]

\* The seventh field of a version line: what follows the sixth bar, up to
\* the next bar if there is one.
OffsetField(line) ==
    LET rest == Fields(line, 6)[7]
    IN  IF IndexOfBar(rest) = 0 THEN rest ELSE SubSeq(rest, 1, IndexOfBar(rest) - 1)

\* C7 (as claimed): the UTC offset of the header is the seventh field of
\* the version line divided by 100, with or without a bar after the field.
C7_OffsetHours ==
    (hdrRes = "ok" /\ HeaderMatches(data)) =>
        hdr.UTCoffset = DivHundred(ParseInt32(OffsetField(SignificantLine(data))))

\* C8: in strict mode, when the first line that is neither comment nor
\* blank does not match the version pattern, the run ends before it writes:
\* it sends no insert, leaves every table as it was and streams no line;
\* it ends in log.Fatal, or in a panic when a blank line came first.
C8_StrictHeaderAborts ==
    (~f_invalid_hdr_ok /\ HeaderMismatches(data)) =>
        /\ pc \in {"Start", "Aborted", "Crashed", "Interrupted"}
        /\ attempts = NoAttempts
        /\ Rows(db) = Rows(db0)
        /\ counter = ZeroCounter
        /\ pos <= FirstSignificant(data)
        /\ pc = "Crashed" => BlankBeforeHeader(data)
        /\ pc = "Aborted" => hdrRes = "fatal"

C8_Witness ==
    /\ ~f_invalid_hdr_ok /\ HeaderMismatches(data) /\ pc = "Aborted"
    /\ hdrRes = "fatal" /\ Len(data) > pos

\* C9 (as claimed): with -invalid-header-ok, after a version line that does
\* not match, the run sends no Dataset insert and no Summary insert.
C9_NoHeaderPersistence ==
    (f_invalid_hdr_ok /\ hdrRes = "nohdr") => attempts.ds = 0 /\ attempts.sum = 0

\* C10 (as claimed): when comment lines and blank lines come before a
\* matching version line, parseHeader skips them and returns the header of
\* that line.
C10_LeadingLinesSkipped ==
    (pc # "Start" /\ HeaderMatches(data)) =>
        /\ hdrRes = "ok"
        /\ hdr.registry = Fields(SignificantLine(data), 6)[2]
        /\ hdr.enddate = Fields(SignificantLine(data), 6)[6]

\* The shape each record type asks of its value and extra fields, as the
\* specification words it.
MaxPrefixLen == <<"1", "2", "8">>
ShapeParses(m) ==
    IF m[3] = ipv4
    THEN /\ Len(SplitDots(m[4])) = 4 /\ InetAton(m[4]) # <<>>
         /\ ~NumLess(MaxUint32, Canon(m[5]))
    ELSE IF m[3] = ipv6
    THEN /\ \E i \in 1..Len(m[4]) : m[4][i] = ":"
         /\ ~NumLess(MaxPrefixLen, Canon(m[5]))
    ELSE /\ IsDigits(m[4]) /\ ~NumLess(MaxUint32, Canon(m[4]))
         /\ ~NumLess(MaxSmallint, Canon(m[5]))

\* C11 (as claimed): a streamed line that matches the record pattern but
\* whose value or extra field does not parse as the shape of its record
\* type adds one to the invalid counter, adds to no per-type counter, and
\* leaves the store without a row for it.
C11_ShapeInvalid ==
    [][(/\ pc = "StreamingRecords" /\ pc' = "StreamingRecords" /\ pos' = pos + 1
        /\ LET m == RecordMatches(ScanText(data, pos + 1))
           IN  m # <<>> /\ ~ShapeParses(m))
       => /\ counter'.invalid = counter.invalid + 1
          /\ counter'.ipv4 = counter.ipv4
          /\ counter'.asn = counter.asn
          /\ counter'.ipv6 = counter.ipv6
          /\ db' = db]_vars

\* The date a record line's date field is persisted as, by the claim.
NormalDate(d) == IF d = <<>> \/ d = Zeros8 THEN EpochCompact ELSE d

\* The record lines the streaming loop has gone through.
Streamed ==
    IF pc \in {"StreamingRecords", "Finished"}
    THEN (parseHeader(data, f_invalid_hdr_ok).pos + 1)..pos
    ELSE {}

HeaderWindow(stream) ==
    LET v == FirstSignificant(stream)
        last == IF v + 3 <= Len(stream) THEN v + 3 ELSE Len(stream)
    IN  (v + 1)..last

\* The count the summary lines of the window declare for a record type
\* (the last of them, should the type come twice), zero with none.
Declared(stream, type) ==
    LET S == {i \in HeaderWindow(stream) :
                 /\ SummaryMatches(ScanText(stream, i)) # <<>>
                 /\ SummaryMatches(ScanText(stream, i))[2] = type}
    IN  IF S = {} THEN Zero
        ELSE Canon(SummaryMatches(ScanText(stream,
                     CHOOSE i \in S : \A j \in S : j <= i))[3])

\* C13: when the version line has parsed, parseHeader returns with the
\* scanner three lines further (at the end of the stream if that comes
\* first) and without an error, and the header's count of each record type
\* is the count of the summary line of that type among those lines,
\* whatever their order, and zero when none of them is of that type.
C13_SummaryLines ==
    (pc = "HeaderParsed" /\ hdrRes = "ok") =>
        /\ HeaderWindow(data) = (FirstSignificant(data) + 1)..pos
        /\ hdr.ipv4Count = Declared(data, ipv4)
        /\ hdr.asnCount = Declared(data, asn)
        /\ hdr.ipv6Count = Declared(data, ipv6)

C13_Witness ==
    /\ pc = "HeaderParsed" /\ hdrRes = "ok"
    /\ \E i, j \in HeaderWindow(data) :
          /\ i < j
          /\ SummaryMatches(ScanText(data, i)) = <<>>
          /\ SummaryMatches(ScanText(data, j)) # <<>>
    /\ hdr.ipv6Count # Zero /\ hdr.ipv4Count = Zero

\* The Summary row of a record type by the claim: the Dataset ID and the
\* declared count.
ClaimedSummary(k) == [ds |-> lastID, type |-> k, count |-> Declared(data, k)]

\* C14: from the step that obtains the Dataset ID on, the run sends one
\* Summary insert per record type not yet sent, each with the Dataset ID
\* and the declared count of its type; an insert that fails adds a warning
\* and no row, and the run goes on to the remaining types and then to the
\* streaming loop.
C14_SummaryInserts ==
    [][/\ (pc = "HeaderParsed" /\ pc' = "DatasetPersisted") =>
             pending' = RecordTypes /\ attempts'.sum = 0
       /\ (pc = "DatasetPersisted" /\ pc' # "Interrupted") =>
             \E k \in pending :
                /\ pending' = pending \ {k}
                /\ attempts'.sum = attempts.sum + 1
                /\ \/ /\ db' = [db EXCEPT !.summaries = @ (+) SetToBag({ClaimedSummary(k)})]
                      /\ attempts'.warn = attempts.warn
                   \/ /\ db' = db
                      /\ attempts'.warn = attempts.warn + 1
                /\ pc' = IF pending' = {} THEN "SummariesPersisted" ELSE "DatasetPersisted"
       /\ (pc = "SummariesPersisted" /\ pc' # "Interrupted") =>
             /\ attempts.sum = Cardinality(RecordTypes)
             /\ pc' = "StreamingRecords"]_vars

C14_Witness ==
    /\ pc = "StreamingRecords" /\ attempts.sum = Cardinality(RecordTypes)
    /\ attempts.warn = 1 /\ attempts.rec = 0
    /\ BagCardinality(db.summaries) = BagCardinality(db0.summaries) + 2

\* The row a record line stands for already has its natural key in the
\* table of its type.
IsDuplicateLine(store, line) ==
    LET m == RecordMatches(line)
    IN  /\ m # <<>>
        /\ \E r \in BagToSet(store.records) :
              /\ r.type = m[3] /\ r.registry = m[1] /\ r.cc = m[2]
              /\ r.first # <<>> /\ r.first = StoreValue(m[3], m[4])
              /\ r.count = Canon(m[5]) /\ r.state = m[7]
              /\ r.date = NormalDate(m[6])

\* C15: an iteration of the streaming loop whose insert the store rejects
\* as a duplicate key leaves every table as it was and the run in the
\* streaming loop, at the next line; it adds one warning when -force is
\* off and none when -force is on.
C15_DuplicateRecord ==
    [][(/\ pc = "StreamingRecords" /\ pos' = pos + 1
        /\ IsDuplicateLine(db, ScanText(data, pos + 1))
        /\ stmts[RecordMatches(ScanText(data, pos + 1))[3]])
       => /\ db' = db
          /\ pc' = "StreamingRecords"
          /\ attempts'.warn = attempts.warn + (IF f_force THEN 0 ELSE 1)
          /\ counter'.all = counter.all + 1]_vars

C15_Witness ==
    /\ pc = "StreamingRecords" /\ ~f_force /\ pos > 0
    /\ IsDuplicateLine(db0, ScanText(data, pos))
    /\ attempts.rec = 1 /\ attempts.warn = 1
    /\ db.records = db0.records

\* C16 (as claimed): a run is aborted only from Start, HeaderParsed or
\* DatasetPersisted, and a run in StreamingRecords stays there or goes to
\* Finished, whatever line comes next and whatever the store answers to
\* its insert (the process being ended from outside apart), so that it
\* ends in Finished.
C16_RunStateMachine ==
    [][/\ (pc' = "Aborted" /\ pc # "Aborted") =>
             pc \in {"Start", "HeaderParsed", "DatasetPersisted"}
       /\ (pc = "StreamingRecords" /\ pc' # "Interrupted") =>
             pc' \in {"StreamingRecords", "Finished"}]_vars

\* C17: when a run with -force has sent its Dataset insert and the store
\* held a Dataset of the header's (registry, serial) already, the run is
\* not aborted, its Dataset ID is the ID of that row, the Datasets table
\* is as it was when the run started (no row added, the existing row
\* unchanged), and every Summary and Record row the run has added carries
\* that ID.
C17_ForceReusesDataset ==
    (/\ f_force /\ attempts.ds = 1 /\ hdrRes = "ok"
     /\ DatasetDuplicates(db0, hdr) # {}) =>
        LET old == CHOOSE d \in DatasetDuplicates(db0, hdr) : TRUE
        IN  /\ pc # "Aborted"
            /\ lastID = old.ID
            /\ db.datasets = db0.datasets
            /\ \A r \in BagToSet(db.summaries (-) db0.summaries) : r.ds = old.ID
            /\ \A r \in BagToSet(db.records (-) db0.records) : r.ds = old.ID

C17_Witness ==
    /\ f_force /\ pc = "Finished" /\ prev = NoRun
    /\ \E d \in DatasetDuplicates(db0, hdr) : d # DatasetRow(d.ID, hdr)
    /\ BagToSet(db.summaries (-) db0.summaries) # {}
    /\ BagToSet(db.records (-) db0.records) # {}

\* The streamed lines of a record type, and those matching no record.
LinesOfType(t) == {i \in Streamed : LET m == RecordMatches(ScanText(data, i))
                                    IN  m # <<>> /\ m[3] = t}
LinesUnmatched == {i \in Streamed : RecordMatches(ScanText(data, i)) = <<>>}

\* C18: the counters of a run that reached the end of the stream are those
\* of the stream's lines alone: every streamed line matching the record
\* pattern is counted under its type, whatever the store answered to its
\* insert, every other one as invalid; so two runs over the same stream
\* that both finish report the same counters, whatever the store held and
\* whatever -force was.
C18_CountersFromStream ==
    pc = "Finished" =>
        /\ counter.all = Cardinality(Streamed)
        /\ counter.ipv4 = Cardinality(LinesOfType(ipv4))
        /\ counter.ipv6 = Cardinality(LinesOfType(ipv6))
        /\ counter.asn = Cardinality(LinesOfType(asn))
        /\ counter.invalid = Cardinality(LinesUnmatched)
        /\ prev.pc = "Finished" => counter = prev.counter

C18_Witness ==
    /\ pc = "Finished" /\ prev.pc = "Finished"
    /\ prev.force # f_force /\ prev.db0 # db0
    /\ counter.all = MaxRecs /\ counter.ipv4 = 1 /\ counter.invalid = 0
    /\ attempts.rec = MaxRecs /\ db.records = db0.records

\* C19 (as claimed): at the end of a run whose version line parsed, every
\* line after the version line that matches the record pattern has been
\* sent to the store and counted under its type, also when fewer than
\* three summary lines follow the version line.
C19_NoRecordLost ==
    (pc = "Finished" /\ hdrRes = "ok") =>
        LET after == {i \in (FirstSignificant(data) + 1)..Len(data) :
                         RecordMatches(ScanText(data, i)) # <<>>}
        IN  /\ counter.ipv4 + counter.asn + counter.ipv6 = Cardinality(after)
            /\ attempts.rec = Cardinality(after)

\* C20 (as claimed): on a stream with no line other than comment and blank
\* lines, parseHeader ends with the malformed-header outcome: the fatal
\* error in strict mode, the return without a header in tolerant mode;
\* the run does not crash.
C20_NoVersionLine ==
    (FirstSignificant(data) = 0 /\ hdrRes # "none") =>
        /\ hdrRes = (IF f_invalid_hdr_ok THEN "nohdr" ELSE "fatal")
        /\ pc # "Crashed"
=============================================================================
